---- MODULE Spec2Model ----
(***************************************************************************)
(* Model of pesquisa_amazon: the brand matcher of fuzzy_matching.py        *)
(* (normalisation, registry construction, MarcaMatcher.match), and, of     *)
(* main_amazon.py, the relevance scorer, the page loop, the deduplication  *)
(* and the executive output of main.                                       *)
(*                                                                         *)
(* Text is a sequence of characters, each character a string.  ASCII       *)
(* characters stand for themselves; "U+00E9" is e with acute accent (a     *)
(* Latin-1 letter that NFKD decomposes into "e" plus a combining mark),    *)
(* "U+0142"/"U+0141" are the Polish l with stroke, lower and upper case (a *)
(* letter outside Latin-1 with no decomposition).  Python's None is the    *)
(* value None below where a text is expected; any other optional value is  *)
(* a sequence of length 0 (None, NaN, NA) or 1.  Fuzzy scores are kept in  *)
(* tenths (88.0 is 880, 100.0 is 1000).                                    *)
(***************************************************************************)
EXTENDS Integers, Sequences, FiniteSets, TLC

VARIABLES
    pc,          \* position of the run being modelled
    texto,       \* argument of _normalizar_texto
    saida,       \* its result
    saida2,      \* the result of normalising the result again
    marcas,      \* strings extracted from marcas_conhecidas.py
    marcas_unicas, \* result of carregar_marcas_conhecidas
    matcher,     \* the MarcaMatcher object (its fields)
    rapidfuzz,   \* whether "from rapidfuzz import process, fuzz" succeeded
    titulo,      \* argument of match
    marca_raw,   \* argument of match
    resp_raw,    \* what process.extractOne answers for marca_raw
    resp_tit,    \* what process.extractOne answers for titulo
    ret,         \* the MatchMarca returned by match
    df,          \* the batch handed to _adicionar_metricas_relevancia
    df_out,      \* the batch it returns
    n_paginas,   \* main: the number of pages asked for
    page,        \* main: the page the loop is at
    pedidos,     \* main: the pages requested so far, each with its outcome
    todos,       \* main: the listings accumulated by the page loop
    df_raw,      \* main: the deduplicated batch written to the first CSV
    df_analise   \* main: the batch written to the executive CSV

\* the variables of main's run
vars_main == <<n_paginas, page, pedidos, todos, df_raw, df_analise>>

vars == <<pc, texto, saida, saida2, marcas, marcas_unicas, matcher, rapidfuzz,
          titulo, marca_raw, resp_raw, resp_tit, ret, df, df_out, vars_main>>

\* main has not started
MainOcioso ==
    /\ n_paginas = 0
    /\ page = 0
    /\ pedidos = <<>>
    /\ todos = <<>>
    /\ df_raw = <<>>
    /\ df_analise = <<>>

None == <<"None">>

NA == <<>>

IsNA(x) == x = <<>>

Val(x) == x[1]

(***************************************************************************)
(* Characters                                                              *)
(***************************************************************************)
Minusculas == <<"a","b","c","d","e","f","g","h","i","j","k","l","m",
                "n","o","p","q","r","s","t","u","v","w","x","y","z">>

Maiusculas == <<"A","B","C","D","E","F","G","H","I","J","K","L","M",
                "N","O","P","Q","R","S","T","U","V","W","X","Y","Z">>

Digitos == {"0","1","2","3","4","5","6","7","8","9"}

Range(s) == {s[i] : i \in 1..Len(s)}

LetrasMaiusculas == Range(Maiusculas)

LetrasMinusculas == Range(Minusculas)

\* every character of the model
Chars ==
    LetrasMaiusculas \cup LetrasMinusculas \cup Digitos
       \cup {" ", "-", ".", "U+00E9", "U+0142", "U+0141"}

IsSpace(c) == c = " "

IsDigit(c) == c \in Digitos

\* the class [A-Z0-9] of the regular expressions of _normalizar_texto
ClasseAZ09 == LetrasMaiusculas \cup Digitos

IsAZ09(c) == c \in ClasseAZ09

\* the character class of the regular expression of _match_ou_especial:
\* A-Z, a-z, 0-9 and the letters of Latin-1 (U+00C0-U+00D6, U+00D8-U+00F6, U+00F8-U+00FF)
ClasseOu == LetrasMaiusculas \cup LetrasMinusculas \cup Digitos \cup {"U+00E9"}

IsClasseOu(c) == c \in ClasseOu

\* the letters and digits of Unicode (str.isalnum) among the characters
LetrasEDigitos ==
    LetrasMaiusculas \cup LetrasMinusculas \cup Digitos \cup {"U+00E9", "U+0142", "U+0141"}

IsLetraOuDigito(c) == c \in LetrasEDigitos

\* unicodedata.normalize("NFKD", c) with the combining marks dropped
SemAcento(c) == IF c = "U+00E9" THEN "e" ELSE c

\* str.upper, character by character
UpperDe ==
    [c \in Chars |->
        IF c \in LetrasMinusculas
        THEN Maiusculas[CHOOSE i \in 1..Len(Minusculas) : Minusculas[i] = c]
        ELSE IF c = "U+0142" THEN "U+0141" ELSE c]

Upper(c) == UpperDe[c]

MapSeq(s, Op(_)) == [i \in 1..Len(s) |-> Op(s[i])]

\* the elements s[i] with Keep(i), each replaced by Put(i), in order
Filtra(s, Keep(_), Put(_)) ==
    LET F[i \in 0..Len(s)] ==
            IF i = 0 THEN <<>>
            ELSE IF Keep(i) THEN Append(F[i-1], Put(i)) ELSE F[i-1]
    IN F[Len(s)]

\* str.strip
Strip(s) ==
    LET idx == {i \in 1..Len(s) : ~IsSpace(s[i])}
    IN IF idx = {} THEN <<>>
       ELSE LET lo == CHOOSE i \in idx : \A j \in idx : i <= j
                hi == CHOOSE i \in idx : \A j \in idx : i >= j
            IN SubSeq(s, lo, hi)

\* re.sub(r"[^A-Z0-9]+", " ", s): each maximal run outside the class is one space
SubNaoAZ09(s) ==
    Filtra(s, LAMBDA i : IsAZ09(s[i]) \/ i = 1 \/ IsAZ09(s[i-1]),
              LAMBDA i : IF IsAZ09(s[i]) THEN s[i] ELSE " ")

\* re.sub(r"\s+", " ", s): each maximal run of white space is one space
SubEspacos(s) ==
    Filtra(s, LAMBDA i : ~IsSpace(s[i]) \/ i = 1 \/ ~IsSpace(s[i-1]),
              LAMBDA i : IF IsSpace(s[i]) THEN " " ELSE s[i])

_remover_acentos(s) == MapSeq(s, SemAcento)

\* _normalizar_texto without the final strip of line 41
_normalizar_texto_sem_strip(s) ==
    LET s1 == Strip(IF s = None THEN <<>> ELSE s)
    IN IF s1 = <<>> THEN <<>>
       ELSE SubEspacos(SubNaoAZ09(MapSeq(_remover_acentos(s1), Upper)))

_normalizar_texto(s) ==
    LET s1 == Strip(IF s = None THEN <<>> ELSE s)
    IN IF s1 = <<>> THEN <<>>
       ELSE Strip(SubEspacos(SubNaoAZ09(MapSeq(_remover_acentos(s1), Upper))))

(***************************************************************************)
(* carregar_marcas_conhecidas and MarcaMatcher.__init__                    *)
(***************************************************************************)
\* keeps the last name of each normalised form instead of the first
carregar_marcas_conhecidas_ultima(ms) ==
    Filtra(ms,
           LAMBDA i : /\ _normalizar_texto(ms[i]) # <<>>
                      /\ \A j \in (i+1)..Len(ms) :
                            _normalizar_texto(ms[j]) # _normalizar_texto(ms[i]),
           LAMBDA i : Strip(ms[i]))

\* the loop of lines 112-120: "seen" at step i holds the keys of ms[1..i-1]
carregar_marcas_conhecidas(ms) ==
    Filtra(ms,
           LAMBDA i : /\ _normalizar_texto(ms[i]) # <<>>
                      /\ \A j \in 1..(i-1) :
                            _normalizar_texto(ms[j]) # _normalizar_texto(ms[i]),
           LAMBDA i : Strip(ms[i]))

OU == <<"O", "U">>

\* list.sort(key=len(norm), reverse=True): stable, longest normalised form first
SortPorTamanhoDesc(p) ==
    LET antes(j, i) == \/ Len(p[j].norm) > Len(p[i].norm)
                       \/ Len(p[j].norm) = Len(p[i].norm) /\ j < i
    IN [k \in 1..Len(p) |->
          p[CHOOSE i \in 1..Len(p) :
                Cardinality({j \in 1..Len(p) : antes(j, i)}) = k - 1]]

\* lines 159-166 without the sort of line 169
PreppedSemSort(ms) ==
    Filtra(ms,
           LAMBDA i : /\ _normalizar_texto(ms[i]) # <<>>
                      /\ _normalizar_texto(ms[i]) # OU,
           LAMBDA i : [orig |-> ms[i], norm |-> _normalizar_texto(ms[i])])

\* lines 159-166 without the exclusion of line 164, then the sort
PreppedComOu(ms) ==
    SortPorTamanhoDesc(
        Filtra(ms,
               LAMBDA i : _normalizar_texto(ms[i]) # <<>>,
               LAMBDA i : [orig |-> ms[i], norm |-> _normalizar_texto(ms[i])]))

\* self._prepped, lines 159-170
Prepped(ms) == SortPorTamanhoDesc(PreppedSemSort(ms))

\* self._choices_fuzzy, lines 173-176
\* the fuzzy pool without the filter of line 175
ChoicesFuzzySemFiltro(prepped) == prepped

ChoicesFuzzy(prepped) ==
    SelectSeq(prepped,
              LAMBDA e : Len(e.norm) >= 4 \/ \E i \in 1..Len(e.norm) : IsDigit(e.norm[i]))

\* self._norm_to_orig.get(n, n), line 178: a later entry overwrites an earlier one
NormToOrig(choices, n) ==
    LET idx == {i \in 1..Len(choices) : choices[i].norm = n}
    IN IF idx = {} THEN n
       ELSE choices[CHOOSE i \in idx : \A j \in idx : j <= i].orig

threshold == 880

\* MarcaMatcher.__init__
MarcaMatcher(ms) ==
    [construido |-> TRUE,
     threshold |-> threshold,
     tem_ou |-> \E i \in 1..Len(ms) : _normalizar_texto(ms[i]) = OU,
     prepped |-> Prepped(ms),
     choices_fuzzy |-> ChoicesFuzzy(Prepped(ms))]

(***************************************************************************)
(* MarcaMatcher: the three matching steps and match                        *)
(***************************************************************************)
\* the integers 0 and 7 handed over where a text is expected
Inteiro0 == <<"int 0">>

Inteiro7 == <<"int 7">>

\* isinstance(s, str)
IsStr(s) == s \notin {None, Inteiro0, Inteiro7}

\* truth value with the integer 0 taken as true
TruthySemZero(s) == s # None /\ s # <<>>

\* Python's truth value of s: None, "" and 0 are false
Truthy(s) == s # None /\ s # <<>> /\ s # Inteiro0

\* re.search of line 190: O, then u or U, no character of the class before or after
RegexOu(s) ==
    \E i \in 1..(Len(s) - 1) :
        /\ s[i] = "O" /\ s[i+1] \in {"u", "U"}
        /\ i = 1 \/ ~IsClasseOu(s[i-1])
        /\ i + 1 = Len(s) \/ ~IsClasseOu(s[i+2])

_match_ou_especial(self, titulo_original) ==
    IF ~self.tem_ou THEN FALSE
    ELSE IF ~Truthy(titulo_original) THEN FALSE
    ELSE RegexOu(titulo_original)

\* sub in s, for sequences
Contem(sub, s) ==
    \E k \in 0..(Len(s) - Len(sub)) : SubSeq(s, k + 1, k + Len(sub)) = sub

Padded(n) == <<" ">> \o n \o <<" ">>

\* the first entry of self._prepped whose padded form occurs in the padded text
_match_exato(self, t) ==
    LET t_norm == _normalizar_texto(t)
        hits == {i \in 1..Len(self.prepped) :
                    Contem(Padded(self.prepped[i].norm), Padded(t_norm))}
    IN IF t_norm = <<>> \/ hits = {} THEN None
       ELSE self.prepped[CHOOSE i \in hits : \A j \in hits : i <= j].orig

\* the guards of _match_fuzzy without "if process is None or fuzz is None"
ChamaExtractOneSemGuarda(self, fuzz, t) ==
    /\ _normalizar_texto(t) # <<>>
    /\ self.choices_fuzzy # <<>>

\* whether _match_fuzzy reaches the call of process.extractOne (lines 206-212)
ChamaExtractOne(self, fuzz, t) ==
    /\ fuzz
    /\ _normalizar_texto(t) # <<>>
    /\ self.choices_fuzzy # <<>>

\* accepts only scores strictly above the threshold
_match_fuzzy_estrito(self, fuzz, t, res) ==
    IF ~ChamaExtractOne(self, fuzz, t) \/ IsNA(res) THEN NA
    ELSE IF Val(res).score > self.threshold
         THEN <<[marca |-> NormToOrig(self.choices_fuzzy, Val(res).melhor),
                 score |-> Val(res).score]>>
         ELSE NA

\* _match_fuzzy; res is the answer of process.extractOne(t_norm, choices_norm)
_match_fuzzy(self, fuzz, t, res) ==
    IF ~ChamaExtractOne(self, fuzz, t) \/ IsNA(res) THEN NA
    ELSE IF Val(res).score >= self.threshold
         THEN <<[marca |-> NormToOrig(self.choices_fuzzy, Val(res).melhor),
                 score |-> Val(res).score]>>
         ELSE NA

\* a decision whose absent score is turned into 0.0
MatchMarcaScoreZero(marca, score, metodo) ==
    [marca |-> marca, score |-> IF IsNA(score) THEN <<0>> ELSE score, metodo |-> metodo]

\* the dataclass MatchMarca
MatchMarca(marca, score, metodo) == [marca |-> marca, score |-> score, metodo |-> metodo]

\* the special rule answering with the upper-case spelling
MarcaOuMaiuscula == <<"O", "U">>

\* the literal "Ou" of lines 234 and 242
MarcaOu == <<"O", "u">>

\* match with the fuzzy step on the title tried before the steps on the raw hint
match_fuzzy_titulo_primeiro(self, fuzz, tit, raw, rr, rt) ==
    LET t == IF Truthy(tit) THEN tit ELSE <<>>
        m == _match_exato(self, t)
        mf2 == _match_fuzzy(self, fuzz, t, rt)
    IN IF _match_ou_especial(self, t) THEN MatchMarca(MarcaOu, <<1000>>, "titulo_exact_ou")
       ELSE IF m # None THEN MatchMarca(m, <<1000>>, "titulo_exact")
       ELSE IF ~IsNA(mf2) THEN MatchMarca(Val(mf2).marca, <<Val(mf2).score>>, "titulo_fuzzy")
       ELSE IF Truthy(raw) /\ _match_ou_especial(self, raw)
            THEN MatchMarca(MarcaOu, <<1000>>, "raw_exact_ou")
       ELSE IF Truthy(raw) /\ _match_exato(self, raw) # None
            THEN MatchMarca(_match_exato(self, raw), <<1000>>, "raw_exact")
       ELSE IF Truthy(raw) /\ ~IsNA(_match_fuzzy(self, fuzz, raw, rr))
            THEN MatchMarca(Val(_match_fuzzy(self, fuzz, raw, rr)).marca,
                            <<Val(_match_fuzzy(self, fuzz, raw, rr)).score>>, "raw_fuzzy")
       ELSE MatchMarca(None, NA, "sem_match")

\* MarcaMatcher.match, lines 232-256
match(self, fuzz, tit, raw, rr, rt) ==
    LET t == IF Truthy(tit) THEN tit ELSE <<>>
        m == _match_exato(self, t)
        mf2 == _match_fuzzy(self, fuzz, t, rt)
    IN IF _match_ou_especial(self, t) THEN MatchMarca(MarcaOu, <<1000>>, "titulo_exact_ou")
       ELSE IF m # None THEN MatchMarca(m, <<1000>>, "titulo_exact")
       ELSE IF Truthy(raw) /\ _match_ou_especial(self, raw)
            THEN MatchMarca(MarcaOu, <<1000>>, "raw_exact_ou")
       ELSE IF Truthy(raw) /\ _match_exato(self, raw) # None
            THEN MatchMarca(_match_exato(self, raw), <<1000>>, "raw_exact")
       ELSE IF Truthy(raw) /\ ~IsNA(_match_fuzzy(self, fuzz, raw, rr))
            THEN MatchMarca(Val(_match_fuzzy(self, fuzz, raw, rr)).marca,
                            <<Val(_match_fuzzy(self, fuzz, raw, rr)).score>>, "raw_fuzzy")
       ELSE IF ~IsNA(mf2) THEN MatchMarca(Val(mf2).marca, <<Val(mf2).score>>, "titulo_fuzzy")
       ELSE MatchMarca(None, NA, "sem_match")

\* the exception match raises, NA when it returns.  A hint that is true and
\* is no str reaches line 241 when no step on the title matched: re.search
\* raises TypeError in _match_ou_especial when the registry holds "Ou" (line
\* 190), else (s or "").strip() raises AttributeError in _normalizar_texto
\* (line 36, called from _match_exato).
ExcecaoMatch(self, tit, raw) ==
    LET t == IF Truthy(tit) THEN tit ELSE <<>>
    IN IF _match_ou_especial(self, t) \/ _match_exato(self, t) # None THEN NA
       ELSE IF Truthy(raw) /\ ~IsStr(raw)
            THEN IF self.tem_ou THEN <<"TypeError">> ELSE <<"AttributeError">>
       ELSE NA

(***************************************************************************)
(* Bounds and input universes                                              *)
(***************************************************************************)
MaxLen == 3

AlfabetoNorm == {"a", "O", "3", " ", "-", "U+00E9", "U+0142"}

RECURSIVE Textos(_, _)
Textos(A, n) ==
    IF n = 0 THEN {<<>>}
    ELSE LET menores == Textos(A, n - 1)
         IN menores \cup {Append(s, c) : s \in {m \in menores : Len(m) = n - 1}, c \in A}

EntradasNorm == Textos(AlfabetoNorm, MaxLen) \cup {None}

(***************************************************************************)
(* Normalisation run: one call of _normalizar_texto, then a second call on *)
(* its result.                                                             *)
(***************************************************************************)
Ocioso ==
    /\ marcas = <<>>
    /\ marcas_unicas = <<>>
    /\ matcher = [construido |-> FALSE]
    /\ rapidfuzz = TRUE
    /\ titulo = None
    /\ marca_raw = None
    /\ resp_raw = NA
    /\ resp_tit = NA
    /\ ret = NA
    /\ df = <<>>
    /\ df_out = <<>>
    /\ MainOcioso

InitNorm ==
    /\ pc = "norm"
    /\ texto \in EntradasNorm
    /\ saida = None
    /\ saida2 = None
    /\ Ocioso

Normalizar ==
    /\ pc = "norm"
    /\ saida' = _normalizar_texto(texto)
    /\ pc' = "norm2"
    /\ UNCHANGED vars_main
    /\ UNCHANGED <<texto, saida2, marcas, marcas_unicas, matcher, rapidfuzz,
                   titulo, marca_raw, resp_raw, resp_tit, ret, df, df_out>>

Renormalizar ==
    /\ pc = "norm2"
    /\ saida2' = _normalizar_texto(saida)
    /\ pc' = "fim"
    /\ UNCHANGED vars_main
    /\ UNCHANGED <<texto, saida, marcas, marcas_unicas, matcher, rapidfuzz,
                   titulo, marca_raw, resp_raw, resp_tit, ret, df, df_out>>

NextNorm == Normalizar \/ Renormalizar

SpecNorm == InitNorm /\ [][NextNorm]_vars

\* a NormalizedText: only A-Z, digits and single interior spaces
IsNormalizado(s) ==
    /\ \A i \in 1..Len(s) : IsAZ09(s[i]) \/ s[i] = " "
    /\ s # <<>> => s[1] # " " /\ s[Len(s)] # " "
    /\ \A i \in 1..(Len(s) - 1) : ~(s[i] = " " /\ s[i+1] = " ")

\* C9: normalisation is total and idempotent; None and the empty text give
\* the empty text; every result holds only A-Z, digits and single interior
\* spaces, with no leading or trailing space.
C9_NormalizeIdempotent ==
    /\ pc \in {"norm2", "fim"} =>
          /\ IsNormalizado(saida)
          /\ (texto = None \/ texto = <<>>) => saida = <<>>
    /\ pc = "fim" => saida2 = saida

C9_Witness ==
    /\ pc = "fim"
    /\ texto = <<"U+00E9", "-", "a">>
    /\ saida = <<"E", " ", "A">>
    /\ saida2 = saida

(***************************************************************************)
(* Matching run: the brand file is loaded, the matcher is built, and match *)
(* is called once on a title and a raw hint.  The answers of               *)
(* process.extractOne (rapidfuzz, outside the repository) are inputs: any  *)
(* candidate of the pool with any score.                                   *)
(***************************************************************************)
nOu == <<"O","u">>

nOUmaiusc == <<"O","U">>

nou == <<"o","u">>

n3M == <<"3","M">>

n3MScotch == <<"3","M"," ","S","c","o","t","c","h">>

nScotch == <<"S","c","o","t","c","h">>

nLG == <<"L","G">>

nFita3MScotchOriginal ==
    <<"F","i","t","a"," ","3","M"," ","S","c","o","t","c","h"," ",
      "O","r","i","g","i","n","a","l">>

MaxMarcas == 2

RECURSIVE Listas(_, _)
Listas(S, n) ==
    IF n = 0 THEN {<<>>}
    ELSE LET menores == Listas(S, n - 1)
         IN menores \cup {Append(l, x) : l \in {m \in menores : Len(m) = n - 1}, x \in S}

NomesMatch == {nOu, n3M, n3MScotch, nLG}

\* characters put immediately before and after a word of the title
Bordas == {<<>>, <<" ">>, <<"-">>, <<"a">>, <<"7">>, <<"U+00E9">>, <<"U+0142">>}

PalavrasOu == {nOu, nOUmaiusc, nou, <<"o","U">>}

TitulosOu == {a \o w \o b : a \in Bordas, w \in PalavrasOu, b \in Bordas}

TitulosMatch ==
    {None, <<>>, <<" ">>, n3M, n3MScotch, nScotch, nLG, nFita3MScotchOriginal,
     nScotch \o <<" ">> \o n3M, n3M \o nScotch,
     nOu \o <<" ">> \o n3M, nou \o <<" ">> \o n3M, nou \o <<" ">> \o nLG}

Hints == {None, <<>>, nOu, nou, n3M, nScotch}

Scores == {879, 880, 1000}

\* the answers process.extractOne can give for a text, None when it is not called
Respostas(self, fuzz, t) ==
    IF (IsStr(t) \/ t = None) /\ ChamaExtractOne(self, fuzz, t)
    THEN {<<[melhor |-> self.choices_fuzzy[i].norm, score |-> sc]>> :
             i \in 1..Len(self.choices_fuzzy), sc \in Scores}
    ELSE {NA}

InitRun(L) ==
    /\ pc = "inicio"
    /\ marcas \in L
    /\ rapidfuzz \in BOOLEAN
    /\ marcas_unicas = <<>>
    /\ matcher = [construido |-> FALSE]
    /\ texto = None
    /\ saida = None
    /\ saida2 = None
    /\ titulo = None
    /\ marca_raw = None
    /\ resp_raw = NA
    /\ resp_tit = NA
    /\ ret = NA
    /\ df = <<>>
    /\ df_out = <<>>
    /\ MainOcioso

\* aplicar_matching_em_df, line 277
Carregar ==
    /\ pc = "inicio"
    /\ marcas_unicas' = carregar_marcas_conhecidas(marcas)
    /\ pc' = "carregado"
    /\ UNCHANGED vars_main
    /\ UNCHANGED <<texto, saida, saida2, marcas, matcher, rapidfuzz,
                   titulo, marca_raw, resp_raw, resp_tit, ret, df, df_out>>

\* aplicar_matching_em_df, line 278
Construir ==
    /\ pc = "carregado"
    /\ matcher' = MarcaMatcher(marcas_unicas)
    /\ pc' = "pronto"
    /\ UNCHANGED vars_main
    /\ UNCHANGED <<texto, saida, saida2, marcas, marcas_unicas, rapidfuzz,
                   titulo, marca_raw, resp_raw, resp_tit, ret, df, df_out>>

\* one call matcher.match(t, h), t and h drawn from T and H
Match(T, H) ==
    /\ pc = "pronto"
    /\ \E t \in T, h \in H :
         \E rr \in Respostas(matcher, rapidfuzz, h),
            rt \in Respostas(matcher, rapidfuzz, t) :
            /\ titulo' = t
            /\ marca_raw' = h
            /\ resp_raw' = rr
            /\ resp_tit' = rt
            /\ IF IsNA(ExcecaoMatch(matcher, t, h))
               THEN ret' = <<match(matcher, rapidfuzz, t, h, rr, rt)>> /\ pc' = "feito"
               ELSE ret' = NA /\ pc' = "excecao"
    /\ UNCHANGED vars_main
    /\ UNCHANGED <<texto, saida, saida2, marcas, marcas_unicas, matcher, rapidfuzz,
                   df, df_out>>

Init == InitRun(Listas(NomesMatch, MaxMarcas))

Next == Carregar \/ Construir \/ Match(TitulosMatch, Hints)

Spec == Init /\ [][Next]_vars

InitOu == InitRun(Listas({nOu, nOUmaiusc, n3M}, MaxMarcas))

NextOu == Carregar \/ Construir \/ Match(TitulosOu, {None, nOUmaiusc})

SpecOu == InitOu /\ [][NextOu]_vars

(***************************************************************************)
(* Registry run: names that collide after normalisation                    *)
(***************************************************************************)
n3hifenM == <<"3","-","M">>

n3espacoM == <<"3"," ","M">>

n3Mponto == <<"3","M",".">>

nLixo == <<"-">>

NomesReg == {n3M, n3hifenM, n3espacoM, n3Mponto, nLixo, nOu}

InitReg == InitRun(Listas(NomesReg, MaxMarcas))

NextReg == Carregar \/ Construir

SpecReg == InitReg /\ [][NextReg]_vars

(***************************************************************************)
(* Run of aplicar_matching_em_df from its entry: the brand file may be     *)
(* missing, or hold only names that normalise to the empty text.           *)
(***************************************************************************)
\* marca_metodo with the ordinary no-match method
MetodoSemArquivoComum == "sem_match"

\* marca_metodo of line 274
MetodoSemArquivo == "marcas_conhecidas_nao_encontrado"

nPonto == <<".">>

InitRegistro ==
    /\ pc = "entrada"
    /\ marcas \in Listas({nLixo, nPonto, n3M}, MaxMarcas)
    /\ rapidfuzz \in BOOLEAN
    /\ marcas_unicas = <<>>
    /\ matcher = [construido |-> FALSE]
    /\ texto = None
    /\ saida = None
    /\ saida2 = None
    /\ titulo = None
    /\ marca_raw = None
    /\ resp_raw = NA
    /\ resp_tit = NA
    /\ ret = NA
    /\ df = <<>>
    /\ df_out = <<>>
    /\ MainOcioso

\* lines 267-270: the brand file is found
Localizar ==
    /\ pc = "entrada"
    /\ pc' = "inicio"
    /\ UNCHANGED vars_main
    /\ UNCHANGED <<texto, saida, saida2, marcas, marcas_unicas, matcher, rapidfuzz,
                   titulo, marca_raw, resp_raw, resp_tit, ret, df, df_out>>

\* lines 270-275: no brand file; the columns a listing of title t gets
SemArquivo(T) ==
    /\ pc = "entrada"
    /\ \E t \in T :
          /\ titulo' = t
          /\ ret' = <<[marca |-> None, score |-> NA, metodo |-> MetodoSemArquivo]>>
    /\ pc' = "feito"
    /\ UNCHANGED vars_main
    /\ UNCHANGED <<texto, saida, saida2, marcas, marcas_unicas, matcher, rapidfuzz,
                   marca_raw, resp_raw, resp_tit, df, df_out>>

TitulosRegistro == {<<>>, n3M, nScotch, nOu}

NextRegistro ==
    \/ Localizar
    \/ SemArquivo(TitulosRegistro)
    \/ Carregar
    \/ Construir
    \/ Match(TitulosRegistro, {<<>>, n3M})

SpecRegistro == InitRegistro /\ [][NextRegistro]_vars

(***************************************************************************)
(* Calls of match with a missing title, a missing hint, or a hint that is  *)
(* no text.                                                                *)
(***************************************************************************)
TitulosMal == {None, <<>>, n3M, nScotch}

HintsMal == {None, <<>>, Inteiro0, Inteiro7, n3M}

InitMal == InitRun(Listas({nOu, n3M}, MaxMarcas))

NextMal == Carregar \/ Construir \/ Match(TitulosMal, HintsMal)

SpecMal == InitMal /\ [][NextMal]_vars

(***************************************************************************)
(* Properties of match                                                     *)
(***************************************************************************)
Ret == ret[1]

TituloOuVazio == IF Truthy(titulo) THEN titulo ELSE <<>>

Metodos == <<"titulo_exact_ou", "titulo_exact", "raw_exact_ou", "raw_exact",
             "raw_fuzzy", "titulo_fuzzy", "sem_match">>

\* the least element of a non-empty set of integers
Menor(S) == CHOOSE k \in S : \A j \in S : k <= j

\* C1: match returns the decision of the first step that succeeds in the
\* order (1) "Ou" rule on the title, (2) exact containment on the title,
\* (3) "Ou" rule then exact containment on the raw hint, (4) fuzzy on the raw
\* hint, (5) fuzzy on the title, (6) no match; the raw-hint steps run only for
\* a non-empty hint.
C1_MatchPrecedence ==
    pc = "feito" =>
       LET t == TituloOuVazio
           temRaw == Truthy(marca_raw)
           fzRaw == _match_fuzzy(matcher, rapidfuzz, marca_raw, resp_raw)
           fzTit == _match_fuzzy(matcher, rapidfuzz, t, resp_tit)
           sucesso == <<_match_ou_especial(matcher, t),
                        _match_exato(matcher, t) # None,
                        temRaw /\ _match_ou_especial(matcher, marca_raw),
                        temRaw /\ _match_exato(matcher, marca_raw) # None,
                        temRaw /\ ~IsNA(fzRaw),
                        ~IsNA(fzTit),
                        TRUE>>
           passo == Menor({k \in 1..7 : sucesso[k]})
           marca == CASE passo \in {1, 3} -> <<"O", "u">>
                      [] passo = 2 -> _match_exato(matcher, t)
                      [] passo = 4 -> _match_exato(matcher, marca_raw)
                      [] passo = 5 -> Val(fzRaw).marca
                      [] passo = 6 -> Val(fzTit).marca
                      [] passo = 7 -> None
           score == CASE passo \in {1, 2, 3, 4} -> <<1000>>
                      [] passo = 5 -> <<Val(fzRaw).score>>
                      [] passo = 6 -> <<Val(fzTit).score>>
                      [] passo = 7 -> NA
       IN /\ Ret.metodo = Metodos[passo]
          /\ Ret.marca = marca
          /\ Ret.score = score
          /\ ~temRaw => Ret.metodo \notin {"raw_exact_ou", "raw_exact", "raw_fuzzy"}

\* the title has the "Ou" word and a registered brand, the hint would match too
C1_Witness ==
    /\ pc = "feito"
    /\ titulo = nOu \o <<" ">> \o n3M
    /\ marca_raw = n3M
    /\ _match_exato(matcher, titulo) = n3M
    /\ _match_exato(matcher, marca_raw) = n3M
    /\ Ret.metodo = "titulo_exact_ou"

\* the brands of the loaded list, other than "Ou", whose normalised form is a
\* space-bounded part of the space-padded normalised text t
Presentes(t) ==
    {i \in 1..Len(marcas_unicas) :
        /\ _normalizar_texto(marcas_unicas[i]) \notin {<<>>, OU}
        /\ Contem(Padded(_normalizar_texto(marcas_unicas[i])),
                  Padded(_normalizar_texto(t)))}

\* C3: when the normalised forms of several registry brands occur in the
\* title, exact containment returns one with the longest normalised form,
\* with score 100 and method titulo_exact, whatever the order of the list.
C3_LongestExact ==
    pc = "feito" /\ ~_match_ou_especial(matcher, TituloOuVazio) =>
       LET pres == Presentes(TituloOuVazio)
       IN pres # {} =>
             /\ Ret.metodo = "titulo_exact"
             /\ Ret.score = <<1000>>
             /\ \E i \in pres :
                   /\ Ret.marca = marcas_unicas[i]
                   /\ \A j \in pres : Len(_normalizar_texto(marcas_unicas[j]))
                                         <= Len(_normalizar_texto(marcas_unicas[i]))

C3_Witness ==
    /\ pc = "feito"
    /\ marcas = <<n3M, n3MScotch>>
    /\ titulo = nFita3MScotchOriginal
    /\ Cardinality(Presentes(titulo)) = 2
    /\ Ret = MatchMarca(n3MScotch, <<1000>>, "titulo_exact")

\* C4: every decision is well formed: brand and score both absent, or both
\* present with the score in [0, 100]; the method is always set.
C4_DecisionWellFormed ==
    pc = "feito" =>
       /\ DOMAIN Ret = {"marca", "score", "metodo"}
       /\ \/ Ret.marca = None /\ IsNA(Ret.score)
          \/ /\ Ret.marca # None
             /\ ~IsNA(Ret.score)
             /\ Val(Ret.score) >= 0
             /\ Val(Ret.score) <= 1000
       /\ Ret.metodo \in Range(Metodos)

\* a fuzzy match: brand and score present, the score below 100
C4_Witness ==
    /\ pc = "feito"
    /\ Ret.metodo = "raw_fuzzy"
    /\ Ret.marca = n3MScotch
    /\ Ret.score = <<880>>

\* no step before the fuzzy steps succeeds
SemPassoExato ==
    /\ ~_match_ou_especial(matcher, TituloOuVazio)
    /\ _match_exato(matcher, TituloOuVazio) = None
    /\ Truthy(marca_raw) => /\ ~_match_ou_especial(matcher, marca_raw)
                            /\ _match_exato(matcher, marca_raw) = None

\* process.extractOne is called with the raw hint
RawConsultado == Truthy(marca_raw) /\ ~IsNA(resp_raw)

RawAceito == RawConsultado /\ Val(resp_raw).score >= 880

\* process.extractOne is called with the title
TitConsultado == ~IsNA(resp_tit)

TitAceito == TitConsultado /\ Val(resp_tit).score >= 880

\* the brand whose normalised form process.extractOne answered
Candidato(resp) ==
    LET c == matcher.choices_fuzzy
    IN c[CHOOSE i \in 1..Len(c) : c[i].norm = Val(resp).melhor].orig

\* a fuzzy step accepts its best candidate exactly when the score is >= 88.0
AceitaNoLimiar ==
    /\ RawConsultado =>
          (Val(resp_raw).score >= 880 <=> Ret.metodo = "raw_fuzzy")
    /\ Ret.metodo = "raw_fuzzy" =>
          Ret.marca = Candidato(resp_raw) /\ Ret.score = <<Val(resp_raw).score>>
    /\ ~RawAceito /\ TitConsultado =>
          (Val(resp_tit).score >= 880 <=> Ret.metodo = "titulo_fuzzy")
    /\ Ret.metodo = "titulo_fuzzy" =>
          Ret.marca = Candidato(resp_tit) /\ Ret.score = <<Val(resp_tit).score>>

\* the candidate a decision carries for the audit, None when it carries none
CandidatoAuditoria(r) == IF "candidato" \in DOMAIN r THEN r.candidato ELSE None

C6_OuExcluded ==
    /\ pc \in {"pronto", "feito"} =>
          /\ \A i \in 1..Len(matcher.prepped) :
                /\ matcher.prepped[i].norm # OU
                /\ _normalizar_texto(matcher.prepped[i].orig) # OU
          /\ \A i \in 1..Len(matcher.choices_fuzzy) :
                /\ matcher.choices_fuzzy[i].norm # OU
                /\ _normalizar_texto(matcher.choices_fuzzy[i].orig) # OU
    /\ pc = "feito" /\ Ret.metodo \in {"titulo_exact", "raw_exact", "raw_fuzzy", "titulo_fuzzy"} =>
          _normalizar_texto(Ret.marca) # OU

\* "Ou" is registered, the title has only the lower-case word, another brand is found
C6_Witness ==
    /\ pc = "feito"
    /\ marcas = <<nOu, nLG>>
    /\ matcher.tem_ou
    /\ titulo = nou \o <<" ">> \o nLG
    /\ Ret = MatchMarca(nLG, <<1000>>, "titulo_exact")

\* "Ou" or "OU" as a word of its own: a capital O, no letter or digit next to it
OuIsolado(s) ==
    \E i \in 1..(Len(s) - 1) :
        /\ s[i] = "O" /\ s[i+1] \in {"u", "U"}
        /\ i = 1 \/ ~IsLetraOuDigito(s[i-1])
        /\ i + 1 = Len(s) \/ ~IsLetraOuDigito(s[i+2])

\* every occurrence of the two letters in s starts with a lower-case o
SoOuMinusculo(s) ==
    \A i \in 1..(Len(s) - 1) : ~(s[i] = "O" /\ s[i+1] \in {"u", "U"})

\* C2: with "Ou" in the registry the special rule fires on a title exactly
\* when the original title has "Ou" or "OU" as a standalone word (no letter or
\* digit immediately before or after) with a capital O; it then returns score
\* 100 with the special-case method, and it never fires on a title whose only
\* occurrences are lower-case "ou".
C2_OuStandalone ==
    pc = "feito" /\ matcher.tem_ou =>
       /\ Ret.metodo = "titulo_exact_ou" <=> OuIsolado(TituloOuVazio)
       /\ Ret.metodo = "titulo_exact_ou" => Ret.score = <<1000>>
       /\ SoOuMinusculo(TituloOuVazio) => Ret.metodo # "titulo_exact_ou"

\* the names of the loaded list whose normalised form is "OU"
RegistradasOu == {i \in 1..Len(marcas_unicas) : _normalizar_texto(marcas_unicas[i]) = OU}

\* C8 (as amended): when the special rule fires, the returned brand is the
\* fixed spelling "Ou", whatever the spelling used in the registry, with
\* score 100.
C8_OuLiteral ==
    pc = "feito" /\ Ret.metodo \in {"titulo_exact_ou", "raw_exact_ou"} =>
       /\ RegistradasOu # {}
       /\ Ret.marca = <<"O", "u">>
       /\ Ret.score = <<1000>>

\* C8 (as claimed): when the special rule fires, the returned brand is the
\* registered name as loaded from the brand list, with score 100.
C8_AsClaimed ==
    pc = "feito" /\ Ret.metodo \in {"titulo_exact_ou", "raw_exact_ou"} =>
       /\ \E i \in RegistradasOu : Ret.marca = marcas_unicas[i]
       /\ Ret.score = <<1000>>

\* the registry spells the brand "OU" and the decision spells it "Ou"
C8_Witness ==
    /\ pc = "feito"
    /\ marcas_unicas = <<nOUmaiusc>>
    /\ titulo = <<" ">> \o nOUmaiusc \o <<"-">>
    /\ Ret = MatchMarca(nOu, <<1000>>, "titulo_exact_ou")

HasInteriorSpace(s) == \E i \in 2..(Len(s) - 1) : s[i] = " "

\* name a is preferred to name b as the canonical spelling: an interior space
\* first, then the greater length
Prefere(a, b) ==
    \/ HasInteriorSpace(a) /\ ~HasInteriorSpace(b)
    \/ HasInteriorSpace(a) = HasInteriorSpace(b) /\ Len(a) > Len(b)

\* at most one entry per normalised form, in the loaded list and in the matcher
UmaPorForma ==
    /\ \A i, j \in 1..Len(marcas_unicas) :
          i # j => _normalizar_texto(marcas_unicas[i]) # _normalizar_texto(marcas_unicas[j])
    /\ \A k \in 1..Len(marcas) :
          _normalizar_texto(marcas[k]) # <<>> =>
             \E i \in 1..Len(marcas_unicas) :
                _normalizar_texto(marcas_unicas[i]) = _normalizar_texto(marcas[k])
    /\ pc = "pronto" =>
          /\ \A i, j \in 1..Len(matcher.prepped) :
                i # j => matcher.prepped[i].norm # matcher.prepped[j].norm
          /\ \A i \in 1..Len(matcher.prepped) :
                /\ matcher.prepped[i].orig \in Range(marcas_unicas)
                /\ matcher.prepped[i].norm = _normalizar_texto(matcher.prepped[i].orig)

TemDigito(n) == \E i \in 1..Len(n) : IsDigit(n[i])

MetodosFuzzy == {"raw_fuzzy", "titulo_fuzzy"}

\* C13 as claimed: at a fuzzy step, an input (hint or title) whose normalised
\* text is shorter than 4 characters skips fuzzy matching and never gets a
\* brand from it.
C13_AsClaimed ==
    pc = "feito" =>
       /\ Ret.metodo = "raw_fuzzy" => Len(_normalizar_texto(marca_raw)) >= 4
       /\ Ret.metodo = "titulo_fuzzy" => Len(_normalizar_texto(TituloOuVazio)) >= 4

\* C13 (as amended): the fuzzy steps put no minimum length on the input: any
\* hint or title whose normalised text is not empty is handed to the fuzzy
\* comparison and gets the brand when the score reaches the threshold.  The
\* 4-character rule is on the registry: only a brand whose normalised name
\* has at least 4 characters or holds a digit is in the fuzzy pool, and only
\* such a brand is returned by a fuzzy step.
C13_FuzzyPool ==
    pc = "feito" =>
       /\ \A i \in 1..Len(matcher.choices_fuzzy) :
             \/ Len(matcher.choices_fuzzy[i].norm) >= 4
             \/ TemDigito(matcher.choices_fuzzy[i].norm)
       /\ Ret.metodo \in MetodosFuzzy =>
             \/ Len(_normalizar_texto(Ret.marca)) >= 4
             \/ TemDigito(_normalizar_texto(Ret.marca))
       /\ /\ SemPassoExato
          /\ rapidfuzz
          /\ Truthy(marca_raw)
          /\ _normalizar_texto(marca_raw) # <<>>
          /\ matcher.choices_fuzzy # <<>>
          => /\ RawConsultado
             /\ Val(resp_raw).score >= 880 => Ret.metodo = "raw_fuzzy"

\* registry ["3M Scotch"], hint "3M" (2 characters): the fuzzy step on the
\* hint returns "3M Scotch"
C13_Witness ==
    /\ pc = "feito"
    /\ marca_raw = n3M
    /\ Len(_normalizar_texto(marca_raw)) < 4
    /\ Ret.metodo = "raw_fuzzy"
    /\ Ret.marca = n3MScotch

C15_AsClaimed ==
    pc = "feito" /\ (~matcher.construido \/ marcas_unicas = <<>>) =>
       /\ Ret.marca = None
       /\ IsNA(Ret.score)
       /\ Ret.metodo = "marcas_conhecidas_nao_encontrado"
       /\ Ret.metodo # "sem_match"

\* C15 (as amended): when the brand file is missing every listing gets brand
\* and score absent with the method "marcas_conhecidas_nao_encontrado",
\* distinct from the ordinary no-match method; when the file is there and
\* every entry is filtered out as empty, matching does not fail and every
\* listing gets brand and score absent with the ordinary method "sem_match".
C15_NoRegistry ==
    pc = "feito" =>
       /\ ~matcher.construido =>
             Ret = [marca |-> None, score |-> NA,
                    metodo |-> "marcas_conhecidas_nao_encontrado"]
       /\ matcher.construido /\ marcas_unicas = <<>> =>
             Ret = [marca |-> None, score |-> NA, metodo |-> "sem_match"]

\* the file holds the one name "-", which normalises to the empty text
C15_Witness ==
    /\ pc = "feito"
    /\ matcher.construido
    /\ marcas = <<nLixo>>
    /\ marcas_unicas = <<>>
    /\ titulo = n3M
    /\ Ret.metodo = "sem_match"

TituloSemMatch ==
    /\ ~_match_ou_especial(matcher, TituloOuVazio)
    /\ _match_exato(matcher, TituloOuVazio) = None

SemPassoEmVazio ==
    /\ titulo \in {None, <<>>} => Ret.metodo \notin {"titulo_exact_ou", "titulo_exact",
                                                    "titulo_fuzzy"}
    /\ marca_raw \in {None, <<>>, Inteiro0} =>
          Ret.metodo \notin {"raw_exact_ou", "raw_exact", "raw_fuzzy"}

Num(v) == [tipo |-> "num", v |-> v]

Texto == [tipo |-> "texto", v |-> 0]

Ausente == [tipo |-> "ausente", v |-> 0]

\* pd.to_numeric(x, errors="coerce")
to_numeric(x) == IF x.tipo = "num" THEN <<x.v>> ELSE NA

\* Series.dropna, as the sequence of the values
dropna(col) == MapSeq(SelectSeq(col, LAMBDA x : ~IsNA(x)), Val)

\* sorted(s)[k], 1-based: the k-th smallest value of s
Ordenado(s, k) ==
    CHOOSE v \in Range(s) :
        /\ Cardinality({j \in 1..Len(s) : s[j] < v}) < k
        /\ Cardinality({j \in 1..Len(s) : s[j] <= v}) >= k

\* 4 * Series.quantile(k / 4), linear interpolation at position (n - 1) * k / 4
Quantil4(valores, k) ==
    LET pos == (Len(valores) - 1) * k
        i == pos \div 4
        r == pos % 4
    IN IF r = 0 THEN 4 * Ordenado(valores, i + 1)
       ELSE (4 - r) * Ordenado(valores, i + 1) + r * Ordenado(valores, i + 2)

MinAmostra == 4

\* the mask of lines 86-94 without the guard "if iqr > 0" of line 90
MascaraOutlierSemGuardaIqr(precos) ==
    LET valid_prices == dropna(precos)
    IN IF Len(valid_prices) >= MinAmostra
       THEN LET q1 == Quantil4(valid_prices, 1)
                q3 == Quantil4(valid_prices, 3)
                iqr == q3 - q1
            IN [i \in 1..Len(precos) |->
                       /\ ~IsNA(precos[i])
                       /\ \/ 8 * Val(precos[i]) < 2 * q1 - 3 * iqr
                          \/ 8 * Val(precos[i]) > 2 * q3 + 3 * iqr]
       ELSE [i \in 1..Len(precos) |-> FALSE]

\* lines 83-94: df["preco_outlier"]
MascaraOutlier(precos) ==
    LET valid_prices == dropna(precos)
    IN IF Len(valid_prices) >= MinAmostra
       THEN LET q1 == Quantil4(valid_prices, 1)
                q3 == Quantil4(valid_prices, 3)
                iqr == q3 - q1
            IN IF iqr > 0
               THEN [i \in 1..Len(precos) |->
                       /\ ~IsNA(precos[i])
                       /\ \/ 8 * Val(precos[i]) < 2 * q1 - 3 * iqr
                          \/ 8 * Val(precos[i]) > 2 * q3 + 3 * iqr]
               ELSE [i \in 1..Len(precos) |-> FALSE]
       ELSE [i \in 1..Len(precos) |-> FALSE]

(***************************************************************************)
(* _adicionar_metricas_relevancia: the scores.  Python floats are modelled *)
(* by exact fractions <<n, d>> in lowest terms with d > 0.                 *)
(***************************************************************************)
Abs(x) == IF x < 0 THEN -x ELSE x

RECURSIVE Mdc(_, _)
Mdc(a, b) == IF b = 0 THEN a ELSE Mdc(b, a % b)

\* the fraction n / d, d # 0
Frac(n, d) ==
    LET g == Mdc(Abs(n), Abs(d))
        s == IF d < 0 THEN -1 ELSE 1
    IN <<(s * n) \div g, (s * d) \div g>>

Zero == Frac(0, 1)

Um == Frac(1, 1)

RatSoma(a, b) == Frac(a[1] * b[2] + b[1] * a[2], a[2] * b[2])

RatSub(a, b) == Frac(a[1] * b[2] - b[1] * a[2], a[2] * b[2])

RatMul(a, b) == Frac(a[1] * b[1], a[2] * b[2])

\* a / b, b # 0
RatDiv(a, b) == Frac(a[1] * b[2], a[2] * b[1])

RatMenor(a, b) == a[1] * b[2] < b[1] * a[2]

RatMenorIgual(a, b) == a[1] * b[2] <= b[1] * a[2]

\* Series.clip(lower=lo)
ClipLower(a, lo) == IF RatMenor(a, lo) THEN lo ELSE a

\* Series.clip(upper=hi), and min(hi, a)
ClipUpper(a, hi) == IF RatMenor(hi, a) THEN hi ELSE a

\* the cell a numeric column holds: NaN or a number
Celula(o) == IF IsNA(o) THEN Ausente ELSE Num(Val(o))

\* pd.to_numeric(df.get(nome), errors="coerce"): a missing column gives NaN
Coluna(d, nome) ==
    [i \in 1..Len(d) |-> IF nome \in DOMAIN d[i] THEN to_numeric(d[i][nome]) ELSE NA]

\* 2 * Series.median() of a non-empty sequence of numbers
Mediana2(valores) ==
    LET n == Len(valores)
    IN IF n % 2 = 1 THEN 2 * Ordenado(valores, (n + 1) \div 2)
       ELSE Ordenado(valores, n \div 2) + Ordenado(valores, n \div 2 + 1)

\* lines 97-101: 2 * preco_mediana, 0 when there is no price to take it from
PrecoMediana2(preco, outlier) ==
    LET valid_prices == dropna(preco)
        idx == {i \in 1..Len(preco) : ~outlier[i] /\ ~IsNA(preco[i])}
        sem_outlier == [k \in 1..Cardinality(idx) |->
                          Val(preco[CHOOSE i \in idx : Cardinality({j \in idx : j < i}) = k - 1])]
        base_mediana == IF sem_outlier = <<>> THEN valid_prices ELSE sem_outlier
    IN IF base_mediana = <<>> THEN 0 ELSE Mediana2(base_mediana)

\* lines 103-106: df["indice_preco"] of one listing
IndicePreco(preco, mediana2) ==
    IF mediana2 > 0 /\ ~IsNA(preco) THEN <<Frac(2 * Val(preco), mediana2)>> ELSE NA

\* lines 109-120: df["desconto_percentual"] of one listing
DescontoPercentual(preco, preco_original) ==
    IF /\ ~IsNA(preco_original)
       /\ Val(preco_original) > 0
       /\ ~IsNA(preco)
       /\ Val(preco_original) > Val(preco)
    THEN Frac(Val(preco_original) - Val(preco), Val(preco_original))
    ELSE Zero

TOLERANCIA_PRECO == Frac(1, 2)

\* lines 125-135: df["score_preco"] of one listing
ScorePreco(indice_preco) ==
    IF IsNA(indice_preco) THEN NA
    ELSE IF RatMenorIgual(Val(indice_preco), Um) THEN <<Um>>
    ELSE <<ClipLower(RatSub(Um, RatDiv(RatSub(Val(indice_preco), Um), TOLERANCIA_PRECO)),
                     Zero)>>

DESCONTO_REF == Frac(3, 10)

\* the promotion score without the clip(upper=1.0) of line 145
ScorePromoSemClip(desconto) ==
    IF RatMenor(Zero, desconto) THEN RatDiv(desconto, DESCONTO_REF) ELSE Zero

\* lines 140-145: df["score_promo"] of one listing
ScorePromo(desconto) ==
    IF RatMenor(Zero, desconto) THEN ClipUpper(RatDiv(desconto, DESCONTO_REF), Um)
    ELSE Zero

\* lines 148-154: df["score_atratividade"] of one listing
ScoreAtratividade(score_preco, score_promo) ==
    IF IsNA(score_preco) THEN NA
    ELSE <<RatSoma(RatMul(Frac(7, 10), Val(score_preco)), RatMul(Frac(3, 10), score_promo))>>

\* lines 160-162: p_max, 0 when no position is known
PMax(posicao) ==
    LET posicoes_validas == dropna(posicao)
    IN IF posicoes_validas = <<>> THEN 0
       ELSE CHOOSE v \in Range(posicoes_validas) : \A w \in Range(posicoes_validas) : w <= v

\* lines 163-166: df["score_visibilidade"] of one listing
ScoreVisibilidade(posicao, p_max) ==
    IF p_max > 0 /\ ~IsNA(posicao) THEN <<Frac(p_max - Val(posicao) + 1, p_max)>> ELSE NA

\* math.log(1.0 + rev) / math.log(1.0 + R_REF) with R_REF = 100.0, to three
\* decimals, for the review counts of the model
LogRazao(rev) ==
    CASE rev = 0 -> Frac(0, 1000)
      [] rev = 10 -> Frac(520, 1000)
      [] rev = 100 -> Frac(1000, 1000)
      [] rev = 1000 -> Frac(1497, 1000)

\* lines 181-185
_calc_f_reviews(rev) == ClipUpper(LogRazao(rev), Um)

\* lines 169-189: df["score_qualidade"] of one listing
ScoreQualidade(rating, reviews) ==
    IF /\ ~IsNA(rating) /\ ~IsNA(reviews)
       /\ Val(rating) > 0 /\ Val(reviews) >= 0
    THEN <<ClipUpper(RatMul(Frac(Val(rating), 5), _calc_f_reviews(Val(reviews))), Um)>>
    ELSE NA

\* fillna(0.0)
FillnaZero(o) == IF IsNA(o) THEN Zero ELSE Val(o)

\* the relevance score left undefined as soon as one of its inputs is undefined
ScoreRelevanciaSemFillna(vis, qual, atr) ==
    IF IsNA(vis) \/ IsNA(qual) \/ IsNA(atr) THEN NA
    ELSE <<RatSoma(RatMul(Frac(4, 10), Val(vis)),
                   RatSoma(RatMul(Frac(3, 10), Val(qual)), RatMul(Frac(3, 10), Val(atr))))>>

\* lines 192-205: df["score_relevancia"] of one listing
ScoreRelevancia(vis, qual, atr) ==
    IF IsNA(vis) /\ IsNA(qual) /\ IsNA(atr) THEN NA
    ELSE <<RatSoma(RatMul(Frac(4, 10), FillnaZero(vis)),
                   RatSoma(RatMul(Frac(3, 10), FillnaZero(qual)),
                           RatMul(Frac(3, 10), FillnaZero(atr))))>>

\* the columns the scorer sets; every other column of the batch is kept
_adicionar_metricas_relevancia(d) ==
    LET preco == Coluna(d, "preco")
        preco_original == Coluna(d, "preco_original")
        outlier == MascaraOutlier(preco)
        mediana2 == PrecoMediana2(preco, outlier)
        posicao == Coluna(d, "posicao")
        p_max == PMax(posicao)
        rating == Coluna(d, "rating")
        reviews == Coluna(d, "reviews")
    IN [i \in 1..Len(d) |->
          LET indice_preco == IndicePreco(preco[i], mediana2)
              desconto == DescontoPercentual(preco[i], preco_original[i])
              score_preco == ScorePreco(indice_preco)
              score_promo == ScorePromo(desconto)
              score_atratividade == ScoreAtratividade(score_preco, score_promo)
              score_visibilidade == ScoreVisibilidade(posicao[i], p_max)
              score_qualidade == ScoreQualidade(rating[i], reviews[i])
          IN [preco |-> Celula(preco[i]),
              preco_original |-> Celula(preco_original[i]),
              preco_outlier |-> outlier[i],
              indice_preco |-> indice_preco,
              desconto_percentual |-> desconto,
              score_preco |-> score_preco,
              score_promo |-> score_promo,
              score_atratividade |-> score_atratividade,
              posicao |-> Celula(posicao[i]),
              score_visibilidade |-> score_visibilidade,
              rating |-> Celula(rating[i]),
              reviews |-> Celula(reviews[i]),
              score_qualidade |-> score_qualidade,
              score_relevancia |->
                 ScoreRelevancia(score_visibilidade, score_qualidade, score_atratividade)]
             @@ d[i]]

MaxItens == 6

PrecosRaw == {Num(9), Num(10), Num(11), Num(1000), Ausente}

Lotes == {[i \in 1..Len(l) |-> [preco |-> l[i]]] : l \in Listas(PrecosRaw, MaxItens)}

InitLote(L) ==
    /\ pc = "lote"
    /\ df \in L
    /\ df_out = <<>>
    /\ MainOcioso
    /\ texto = None
    /\ saida = None
    /\ saida2 = None
    /\ marcas = <<>>
    /\ marcas_unicas = <<>>
    /\ matcher = [construido |-> FALSE]
    /\ rapidfuzz = TRUE
    /\ titulo = None
    /\ marca_raw = None
    /\ resp_raw = NA
    /\ resp_tit = NA
    /\ ret = NA

InitScore == InitLote(Lotes)

\* main, line 438: df = _adicionar_metricas_relevancia(df)
AdicionarMetricas ==
    /\ pc = "lote"
    /\ df_out' = _adicionar_metricas_relevancia(df)
    /\ pc' = "pontuado"
    /\ UNCHANGED vars_main
    /\ UNCHANGED <<texto, saida, saida2, marcas, marcas_unicas, matcher, rapidfuzz,
                   titulo, marca_raw, resp_raw, resp_tit, ret, df>>

NextScore == AdicionarMetricas

SpecScore == InitScore /\ [][NextScore]_vars

(***************************************************************************)
(* Scoring run over batches that carry every column the scorer reads       *)
(***************************************************************************)
MaxLote == 2

Listing(preco, preco_original, posicao, rating, reviews) ==
    [preco |-> preco, preco_original |-> preco_original, posicao |-> posicao,
     rating |-> rating, reviews |-> reviews]

\* listings that differ in price and original price
ItensPreco ==
    {Listing(p, o, Ausente, Ausente, Ausente) :
        p \in {Num(10), Num(14), Num(40), Ausente}, o \in {Num(12), Num(20), Ausente}}
    \cup {Listing(Texto, Num(12), Ausente, Ausente, Ausente)}

\* listings that differ in position
ItensPosicao ==
    {Listing(Ausente, Ausente, q, Ausente, Ausente) : q \in {Num(0), Num(1), Num(2)}}

\* listings that differ in rating and review count
ItensQualidade ==
    {Listing(Ausente, Ausente, Ausente, r[1], r[2]) :
        r \in {<<Num(4), Num(10)>>, <<Num(6), Num(10)>>, <<Num(6), Num(1000)>>,
               <<Num(0), Num(10)>>, <<Num(4), Num(-1)>>, <<Num(4), Ausente>>,
               <<Ausente, Num(10)>>, <<Num(5), Num(0)>>}}

ItensCompletos ==
    {Listing(Num(10), Num(20), Num(1), Num(4), Num(100)),
     Listing(Num(14), Ausente, Num(2), Num(5), Num(0))}

LotesRel == Listas(ItensPreco \cup ItensPosicao \cup ItensQualidade \cup ItensCompletos,
                   MaxLote) \ {<<>>}

InitRel == InitLote(LotesRel)

SpecRel == InitRel /\ [][NextScore]_vars

\* C11: for every listing of a scored batch, the relevance score is defined
\* exactly when at least one of visibility, quality and attractiveness is
\* defined, and then equals 0.4 * visibility + 0.3 * quality + 0.3 *
\* attractiveness with each undefined input taken as 0 (stated times 10).
C11_Relevance ==
    pc = "pontuado" =>
       \A i \in 1..Len(df_out) :
          LET r == df_out[i]
              algum == ~IsNA(r.score_visibilidade) \/ ~IsNA(r.score_qualidade)
                          \/ ~IsNA(r.score_atratividade)
              v == IF IsNA(r.score_visibilidade) THEN Zero ELSE r.score_visibilidade[1]
              q == IF IsNA(r.score_qualidade) THEN Zero ELSE r.score_qualidade[1]
              a == IF IsNA(r.score_atratividade) THEN Zero ELSE r.score_atratividade[1]
          IN /\ ~IsNA(r.score_relevancia) <=> algum
             /\ algum =>
                  RatMul(Frac(10, 1), r.score_relevancia[1])
                     = RatSoma(RatMul(Frac(4, 1), v),
                               RatSoma(RatMul(Frac(3, 1), q), RatMul(Frac(3, 1), a)))

\* a listing with rating 4 and 10 reviews only: quality 52/125 is the one
\* defined input and the relevance is 0.3 * 52/125 = 78/625
C11_Witness ==
    /\ pc = "pontuado"
    /\ \E i \in 1..Len(df_out) :
          /\ IsNA(df_out[i].score_visibilidade)
          /\ IsNA(df_out[i].score_atratividade)
          /\ df_out[i].score_qualidade = <<Frac(52, 125)>>
          /\ df_out[i].score_relevancia = <<Frac(78, 625)>>

EmZeroUm(o) == IsNA(o) \/ (RatMenorIgual(Zero, o[1]) /\ RatMenorIgual(o[1], Um))

TemPrecoNumerico(i) == df[i].preco.tipo = "num"

\* the numeric prices of the batch handed to the scorer, in order
PrecosNumericos == MapSeq(SelectSeq(df, LAMBDA r : r.preco.tipo = "num"), LAMBDA r : r.preco.v)

\* C10: no listing is flagged as a price outlier when fewer than 4 listings
\* have a numeric price or when the interquartile range is 0; otherwise a
\* listing is flagged exactly when its price is below Q1 - 1.5 * IQR or above
\* Q3 + 1.5 * IQR; a listing without a numeric price is never flagged.
\* (q1 and q3 are 4 * Q1 and 4 * Q3, and both sides of the limits are times 8.)
C10_PriceOutlier ==
    pc = "pontuado" =>
       LET pn == PrecosNumericos
           q1 == Quantil4(pn, 1)
           q3 == Quantil4(pn, 3)
           fora(p) == 8 * p < 2 * q1 - 3 * (q3 - q1) \/ 8 * p > 2 * q3 + 3 * (q3 - q1)
       IN /\ Len(df_out) = Len(df)
          /\ Len(pn) < 4 => \A i \in 1..Len(df) : ~df_out[i].preco_outlier
          /\ Len(pn) >= 4 /\ q3 - q1 = 0 => \A i \in 1..Len(df) : ~df_out[i].preco_outlier
          /\ Len(pn) >= 4 /\ q3 - q1 # 0 =>
                \A i \in 1..Len(df) :
                   df_out[i].preco_outlier <=> (TemPrecoNumerico(i) /\ fora(df[i].preco.v))

C10_Witness ==
    /\ pc = "pontuado"
    /\ df = <<[preco |-> Num(10)], [preco |-> Num(10)], [preco |-> Num(11)],
              [preco |-> Num(9)], [preco |-> Num(10)], [preco |-> Num(1000)]>>
    /\ \A i \in 1..6 : df_out[i].preco_outlier <=> i = 6

(***************************************************************************)
(* main: the page loop, the scoring, the deduplication and the executive   *)
(* output.  A listing is the dict extrair_resultados_amazon builds, with   *)
(* the fields the run reads; texts are sequences as above, prices cells.   *)
(***************************************************************************)
MaxPaginas == 2

MaxPorPagina == 2

\* one item of the provider's answer, by the fields the extractor picks
Item(produto, preco, asin, rating, reviews) ==
    [produto |-> produto, preco |-> preco, seller |-> <<"S">>, asin |-> asin,
     rating |-> rating, reviews |-> reviews]

iA == Item(<<"X">>, Num(10), <<"A">>, Num(4), Num(10))

iB == Item(<<"Y">>, Num(20), <<"B">>, Ausente, Ausente)

iN1 == Item(<<"X">>, Num(10), None, Ausente, Ausente)

iN2 == Item(<<"Y">>, Num(20), None, Num(5), Num(100))

\* extrair_resultados_amazon: one dict per item, "posicao" counted from 1
extrair_resultados_amazon(itens) ==
    [idx \in 1..Len(itens) |-> [posicao |-> Num(idx)] @@ itens[idx]]

\* the global position taken as the position within the page
AjustaPosicaoSemBase(base, pg, resultados_pagina) ==
    [i \in 1..Len(resultados_pagina) |->
        [pagina |-> pg, posicao |-> Num(i)] @@ resultados_pagina[i]]

\* main, lines 424-427
AjustaPosicao(base, pg, resultados_pagina) ==
    [i \in 1..Len(resultados_pagina) |->
        [pagina |-> pg, posicao |-> Num(base + i)] @@ resultados_pagina[i]]

\* DataFrame.drop_duplicates(subset, keep="first"), Chave(r) the values of a
\* row in the subset; missing values are equal to each other
DropDuplicates(d, Chave(_)) ==
    Filtra(d, LAMBDA i : \A j \in 1..(i - 1) : Chave(d[j]) # Chave(d[i]), LAMBDA i : d[i])

\* _deduplicar, lines 50-54
_deduplicar(d) ==
    IF \E i \in 1..Len(d) : d[i].asin # None
    THEN DropDuplicates(d, LAMBDA r : r.asin)
    ELSE DropDuplicates(d, LAMBDA r : <<r.produto, r.seller, r.preco>>)

\* _montar_df_analise: the columns of EXEC_COLS_ANALISE the batch has; the
\* discount becomes a percentage when no discount of the batch is above 1
_montar_df_analise(d) ==
    LET pct == \A i \in 1..Len(d) : RatMenorIgual(d[i].desconto_percentual, Um)
    IN [i \in 1..Len(d) |->
          [pagina |-> d[i].pagina,
           posicao |-> d[i].posicao,
           produto |-> d[i].produto,
           seller |-> d[i].seller,
           preco |-> d[i].preco,
           preco_original |-> d[i].preco_original,
           desconto_percentual |->
              IF pct THEN RatMul(d[i].desconto_percentual, Frac(100, 1))
              ELSE d[i].desconto_percentual,
           rating |-> d[i].rating,
           reviews |-> d[i].reviews,
           id_item |-> d[i].asin,
           indice_preco |-> d[i].indice_preco,
           score_relevancia |-> d[i].score_relevancia,
           score_visibilidade |-> d[i].score_visibilidade,
           score_qualidade |-> d[i].score_qualidade,
           score_atratividade |-> d[i].score_atratividade]]

\* what one page can hold: 1 to MaxPorPagina items of U
Paginas(U) == Listas(U, MaxPorPagina) \ {<<>>}

InitMain ==
    /\ pc = "pagina"
    /\ n_paginas \in 0..MaxPaginas
    /\ page = 1
    /\ pedidos = <<>>
    /\ todos = <<>>
    /\ df_raw = <<>>
    /\ df_analise = <<>>
    /\ df = <<>>
    /\ df_out = <<>>
    /\ texto = None
    /\ saida = None
    /\ saida2 = None
    /\ marcas = <<>>
    /\ marcas_unicas = <<>>
    /\ matcher = [construido |-> FALSE]
    /\ rapidfuzz = TRUE
    /\ titulo = None
    /\ marca_raw = None
    /\ resp_raw = NA
    /\ resp_tit = NA
    /\ ret = NA

\* the variables main's run leaves alone
vars_matcher == <<texto, saida, saida2, marcas, marcas_unicas, matcher, rapidfuzz,
                  titulo, marca_raw, resp_raw, resp_tit, ret>>

\* lines 398-408: buscar_amazon_search raises AmazonSearchError, break
PaginaComErro ==
    /\ pc = "pagina"
    /\ page <= n_paginas
    /\ pedidos' = Append(pedidos, [page |-> page, res |-> "erro", n |-> 0])
    /\ pc' = "fim_paginas"
    /\ UNCHANGED <<n_paginas, page, todos, df_raw, df_analise, df, df_out>>
    /\ UNCHANGED vars_matcher

\* lines 417-421: no item extracted from the answer, break
PaginaVazia ==
    /\ pc = "pagina"
    /\ page <= n_paginas
    /\ pedidos' = Append(pedidos, [page |-> page, res |-> "vazio", n |-> 0])
    /\ pc' = "fim_paginas"
    /\ UNCHANGED <<n_paginas, page, todos, df_raw, df_analise, df, df_out>>
    /\ UNCHANGED vars_matcher

\* lines 417-430: the items of the page are extracted, numbered and kept
PaginaComItens(U) ==
    /\ pc = "pagina"
    /\ page <= n_paginas
    /\ \E itens \in Paginas(U) :
          LET resultados_pagina == extrair_resultados_amazon(itens)
          IN /\ todos' = todos \o AjustaPosicao(Len(todos), page, resultados_pagina)
             /\ pedidos' = Append(pedidos, [page |-> page, res |-> "itens",
                                            n |-> Len(resultados_pagina)])
    /\ page' = page + 1
    /\ UNCHANGED <<pc, n_paginas, df_raw, df_analise, df, df_out>>
    /\ UNCHANGED vars_matcher

\* line 398: range(1, n_paginas + 1) is exhausted
FimPaginas ==
    /\ pc = "pagina"
    /\ page > n_paginas
    /\ pc' = "fim_paginas"
    /\ UNCHANGED <<n_paginas, page, pedidos, todos, df_raw, df_analise, df, df_out>>
    /\ UNCHANGED vars_matcher

\* lines 432-434: nothing was extracted, main returns
SemResultados ==
    /\ pc = "fim_paginas"
    /\ todos = <<>>
    /\ pc' = "fim"
    /\ UNCHANGED <<n_paginas, page, pedidos, todos, df_raw, df_analise, df, df_out>>
    /\ UNCHANGED vars_matcher

\* lines 436-449: the batch is scored, deduplicated and written to the CSV
PontuarEDeduplicar ==
    /\ pc = "fim_paginas"
    /\ todos # <<>>
    /\ df' = todos
    /\ df_out' = _adicionar_metricas_relevancia(todos)
    /\ df_raw' = _deduplicar(_adicionar_metricas_relevancia(todos))
    /\ pc' = "csv"
    /\ UNCHANGED <<n_paginas, page, pedidos, todos, df_analise>>
    /\ UNCHANGED vars_matcher

\* lines 453-467: the copy of the deduplicated batch is scored again and laid
\* out for the executive CSV (the brand columns aplicar_matching_em_df adds to
\* the copy are read by no score and are not carried here)
SaidaExecutiva ==
    /\ pc = "csv"
    /\ df_analise' = _montar_df_analise(_adicionar_metricas_relevancia(df_raw))
    /\ pc' = "fim"
    /\ UNCHANGED <<n_paginas, page, pedidos, todos, df_raw, df, df_out>>
    /\ UNCHANGED vars_matcher

ItensLoop == {iA, iB, iN1}

NextPaginas == PaginaComErro \/ PaginaVazia \/ PaginaComItens(ItensLoop) \/ FimPaginas

SpecPaginas == InitMain /\ [][NextPaginas]_vars

ItensMain == {iA, iB, iN1, iN2}

NextMain ==
    \/ PaginaComErro
    \/ PaginaVazia
    \/ PaginaComItens(ItensMain)
    \/ FimPaginas
    \/ SemResultados
    \/ PontuarEDeduplicar
    \/ SaidaExecutiva

SpecMain == InitMain /\ [][NextMain]_vars

(***************************************************************************)
(* Properties of main's run                                                *)
(***************************************************************************)
\* C17: the score fields attached to a listing are not changed afterwards:
\* for every listing that reaches the outputs, the price index, visibility,
\* quality, attractiveness and relevance of the executive output equal those
\* first computed for that listing in the run (the ones written to the first
\* CSV).  The outlier flag is no column of the executive output.
C17_ScoresNeverChange ==
    pc = "fim" /\ df_analise # <<>> =>
       /\ Len(df_analise) = Len(df_raw)
       /\ \A k \in 1..Len(df_analise) :
             /\ df_analise[k].posicao = df_raw[k].posicao
             /\ df_analise[k].indice_preco = df_raw[k].indice_preco
             /\ df_analise[k].score_visibilidade = df_raw[k].score_visibilidade
             /\ df_analise[k].score_qualidade = df_raw[k].score_qualidade
             /\ df_analise[k].score_atratividade = df_raw[k].score_atratividade
             /\ df_analise[k].score_relevancia = df_raw[k].score_relevancia

\* C18: the page loop requests pages 1..n in increasing order and stops at the
\* first page that raises a search error or yields no item: that page is the
\* last one requested, the listings of all earlier pages are kept, and the
\* accumulated listings carry the global positions 1..N in accumulation
\* order, with page numbers that never decrease.
C18_PageLoop ==
    /\ Len(pedidos) <= n_paginas
    /\ \A i \in 1..Len(pedidos) : pedidos[i].page = i
    /\ \A i \in 1..Len(pedidos) :
          pedidos[i].res # "itens" => i = Len(pedidos) /\ pc # "pagina"
    /\ pc = "pagina" => page = Len(pedidos) + 1
    /\ \A i \in 1..Len(pedidos) :
          Cardinality({j \in 1..Len(todos) : todos[j].pagina = i}) = pedidos[i].n
    /\ \A j \in 1..Len(todos) : todos[j].posicao = Num(j)
    /\ \A j \in 1..(Len(todos) - 1) : todos[j].pagina <= todos[j + 1].pagina

\* page 1 gives two items and page 2 raises: the loop is over with the two
\* listings of page 1, numbered 1 and 2
C18_Witness ==
    /\ pc = "fim_paginas"
    /\ n_paginas = 2
    /\ Len(pedidos) = 2
    /\ pedidos[1].res = "itens" /\ pedidos[1].n = 2
    /\ pedidos[2].res = "erro"
    /\ Len(todos) = 2
    /\ todos[2].posicao = Num(2)
    /\ todos[2].pagina = 1

\* C19: deduplication only removes true duplicates: when some listing has an
\* asin, the first listing of each asin and every listing without asin are
\* kept; when none has, the first listing of each (produto, seller, preco) is
\* kept; the listings kept are in the original order and unaltered.
C19_DedupOnlyDuplicates ==
    df_out # <<>> =>
       LET d == df_out
           esperado ==
              IF \E i \in 1..Len(d) : d[i].asin # None
              THEN Filtra(d, LAMBDA i : \/ d[i].asin = None
                                        \/ \A j \in 1..(i - 1) : d[j].asin # d[i].asin,
                          LAMBDA i : d[i])
              ELSE Filtra(d, LAMBDA i : \A j \in 1..(i - 1) :
                                           <<d[j].produto, d[j].seller, d[j].preco>>
                                              # <<d[i].produto, d[i].seller, d[i].preco>>,
                          LAMBDA i : d[i])
       IN df_raw = esperado

====
